---- MODULE Spec2Model ----
(***************************************************************************)
(* Model of the polling client of frontend/src/App.js (the React component *)
(* App) together with the job store of the backend it talks to.            *)
(*                                                                         *)
(* One action per handler or callback of App.js: handleFileChange,         *)
(* handleUpload (up to its await), the continuation of handleUpload after  *)
(* the POST settles, the setInterval callback, the continuation of         *)
(* pollTaskStatus after the GET settles, the effect that copies            *)
(* currentTaskId into currentTaskIdRef, and the unmount cleanup.           *)
(*                                                                         *)
(* React: the setters called by one handler are applied together with the  *)
(* render they cause.  The passive effect of a render runs later, as a     *)
(* step of its own, but never later than the start of the next render.     *)
(* A closure (handleUpload, pollTaskStatus) reads the state of the render  *)
(* that created it; the refs are shared mutable cells.                     *)
(*                                                                         *)
(* The backend code is not part of the sources; its job store is modelled  *)
(* from the specification (sections 3, 4.1-4.3) and README.md.             *)
(***************************************************************************)
EXTENDS Naturals, FiniteSets, Bags, TLC

\* ------------------------------------------------------------------ bounds
MaxUploads == 3      \* handleUpload invocations explored
MaxInFlight == 2     \* status queries in flight at once

\* --------------------------------------------------------------- constants
Null == 0            \* JavaScript null; task ids and interval ids are >= 1

VARIABLES
    selectedFile,        \* useState: TRUE when a file is selected
    message,             \* useState
    isLoading,           \* useState
    generatedFilename,   \* useState: Null or an output filename
    currentTaskId,       \* useState: Null or a task id
    pollingIntervalRef,  \* useRef: Null or the id of an interval
    currentTaskIdRef,    \* useRef: Null or a task id
    mounted,             \* the component is mounted
    timers,              \* live intervals: [id, taskId, isLoading (closure)]
    posts,               \* POST /summarize in flight: [up, isLoading (closure)]
    gets,                \* bag of GET /status in flight: [taskId, isLoading]
    uploadSeq,           \* number of handleUpload invocations so far
    tasks,               \* backend job store: task id -> [state, outputRef]
    nextTaskId,          \* backend: next fresh task id
    scheduled,           \* backend: bag of task ids whose runner is dispatched
    acceptedAtUpload,    \* history: ids handed out before the latest handleUpload
    notFoundHandled,     \* history: ids whose 404 the poller acted on
    lastEvent            \* history: what the last step did

reactState == <<selectedFile, message, isLoading, generatedFilename, currentTaskId>>
refs == <<pollingIntervalRef, currentTaskIdRef>>
backend == <<tasks, nextTaskId, scheduled>>
history == <<acceptedAtUpload, notFoundHandled>>
vars == <<selectedFile, message, isLoading, generatedFilename, currentTaskId,
          pollingIntervalRef, currentTaskIdRef, mounted, timers, posts, gets,
          uploadSeq, tasks, nextTaskId, scheduled, acceptedAtUpload,
          notFoundHandled, lastEvent>>

\* ---------------------------------------------------------------- messages
MsgNone == ""
MsgUploading == "Uploading file..."
MsgProcessing == "Status: PROCESSING..."
MsgCompleted == "Processing completed successfully!"
MsgFailed == "Error: Processing failed"
MsgNotFound == "Error: Task ID not found on server. Please try uploading again."
MsgCheckError == "Error checking status. Check console."
MsgRejected == "Error: Could not start processing."
MsgNoResponse == "Error: No response from server."
MsgNoTaskId == "Error: Backend did not return a task_id."

MsgStatus(status) ==
    IF status = "PROCESSING" THEN MsgProcessing ELSE "Status: PENDING..."

ErrorMessages ==
    {MsgFailed, MsgNotFound, MsgCheckError, MsgRejected, MsgNoResponse, MsgNoTaskId}

\* ----------------------------------------------------------------- backend
Terminal == {"COMPLETED", "FAILED"}

\* output_filename of the status record of a COMPLETED task
OutputFilename(taskId) == taskId

\* the record of a job: its state, and the artifact once it is COMPLETED
Job(state, outputRef) == [state |-> state, outputRef |-> outputRef]

\* what GET /status/{task_id} answers: the record's status, or 404
StatusOf(taskId) ==
    IF taskId \in DOMAIN tasks THEN tasks[taskId].state ELSE "NOT_FOUND"

\* history: the last step, recorded for the continuations of the two requests
\* (for a status response: what it reported, when the poller acted on it)
Event(kind, result, active) ==
    [kind |-> kind, result |-> result, active |-> active]

OtherEvent == Event("other", "", FALSE)

Init ==
    /\ selectedFile = FALSE
    /\ message = MsgNone
    /\ isLoading = FALSE
    /\ generatedFilename = Null
    /\ currentTaskId = Null
    /\ pollingIntervalRef = Null
    /\ currentTaskIdRef = Null
    /\ mounted = TRUE
    /\ timers = {}
    /\ posts = {}
    /\ gets = EmptyBag
    /\ uploadSeq = 0
    /\ tasks = <<>>
    /\ nextTaskId = 1
    /\ scheduled = EmptyBag
    /\ acceptedAtUpload = 0
    /\ notFoundHandled = {}
    /\ lastEvent = OtherEvent

\* ------------------------------------------------------------------- React
\* The setters of one handler, applied with the render they cause.  A render
\* first runs the effect left pending by the previous one, so the ref holds the
\* task id of the previous render until this render's own effect runs.  On an
\* unmounted component the setters do nothing.
Render(file, msg, loading, filename, taskId) ==
    IF mounted
    THEN /\ selectedFile' = file
         /\ message' = msg
         /\ isLoading' = loading
         /\ generatedFilename' = filename
         /\ currentTaskId' = taskId
         /\ currentTaskIdRef' =
                IF <<file, msg, loading, filename, taskId>> # reactState
                THEN currentTaskId
                ELSE currentTaskIdRef
    ELSE UNCHANGED <<reactState, currentTaskIdRef>>

\* useEffect(() => { currentTaskIdRef.current = currentTaskId }, [currentTaskId])
SyncTaskIdRef ==
    /\ mounted
    /\ currentTaskIdRef # currentTaskId
    /\ currentTaskIdRef' = currentTaskId
    /\ lastEvent' = OtherEvent
    /\ UNCHANGED <<reactState, pollingIntervalRef, mounted, timers, posts, gets,
                   uploadSeq, backend, history>>

\* stopPolling: clearInterval(pollingIntervalRef.current), then null the ref
TimersAfterStop == {t \in timers : t.id # pollingIntervalRef}

StopPolling ==
    /\ timers' = TimersAfterStop
    /\ pollingIntervalRef' = Null

\* the unmount cleanup of the mount effect; the commit that unmounts the
\* component first runs the effect left pending by the last render
Unmount ==
    /\ mounted
    /\ mounted' = FALSE
    /\ currentTaskIdRef' = currentTaskId
    /\ StopPolling
    /\ lastEvent' = OtherEvent
    /\ UNCHANGED <<reactState, posts, gets, uploadSeq, backend, history>>

\* handleFileChange; the input is disabled while isLoading
HandleFileChange(file) ==
    /\ mounted
    /\ ~isLoading
    /\ Render(file, MsgNone, FALSE, Null, Null)
    /\ StopPolling
    /\ lastEvent' = OtherEvent
    /\ UNCHANGED <<mounted, posts, gets, uploadSeq, backend, history>>

\* handleUpload up to the await of axios.post; the button is disabled while
\* isLoading or without a file
HandleUpload ==
    /\ mounted
    /\ ~isLoading
    /\ selectedFile
    /\ uploadSeq < MaxUploads
    /\ StopPolling
    /\ Render(selectedFile, MsgUploading, TRUE, Null, Null)
    /\ uploadSeq' = uploadSeq + 1
    /\ posts' = posts \cup {[up |-> uploadSeq + 1, isLoading |-> isLoading]}
    /\ acceptedAtUpload' = nextTaskId - 1
    /\ lastEvent' = OtherEvent
    /\ UNCHANGED <<mounted, gets, backend, notFoundHandled>>

\* pollTaskStatus before its request: polling must be active and the task polled
\* must be the one the ref names
PollGuard(taskId) ==
    /\ pollingIntervalRef # Null
    /\ taskId = currentTaskIdRef

\* axios.get(`/status/${taskId}`) awaited by a pollTaskStatus whose render had
\* isLoading = loading
StatusQuery(taskId, loading) == [taskId |-> taskId, isLoading |-> loading]

\* pollTaskStatus(taskId) up to the await of axios.get
GetsAfterPoll(taskId, loading) ==
    IF PollGuard(taskId)
    THEN gets (+) SetToBag({StatusQuery(taskId, loading)})
    ELSE gets

CanPoll(taskId) ==
    PollGuard(taskId) => BagCardinality(gets) < MaxInFlight

\* a submission service that leaves the job at PENDING when its runner could
\* not be dispatched
CreateJobLeftPending(dispatched) ==
    /\ tasks' = tasks @@ (nextTaskId :> Job("PENDING", Null))
    /\ nextTaskId' = nextTaskId + 1
    /\ scheduled' = IF dispatched
                    THEN scheduled (+) SetToBag({nextTaskId})
                    ELSE scheduled

\* POST /summarize of a valid upload: the job is created at PENDING under a
\* fresh id and its runner is scheduled, once; a job whose runner cannot be
\* dispatched is marked FAILED before the call returns
CreateJob(dispatched) ==
    /\ tasks' = tasks @@ (nextTaskId :>
                     Job(IF dispatched THEN "PENDING" ELSE "FAILED", Null))
    /\ nextTaskId' = nextTaskId + 1
    /\ scheduled' = IF dispatched
                    THEN scheduled (+) SetToBag({nextTaskId})
                    ELSE scheduled

\* a handleUpload that sets its interval without clearing the one the ref holds
UploadAcceptedKeepsOldInterval(p) ==
    /\ \E dispatched \in BOOLEAN : CreateJob(dispatched)
    /\ Render(selectedFile, MsgProcessing, isLoading, generatedFilename, nextTaskId)
    /\ CanPoll(nextTaskId)
    /\ gets' = GetsAfterPoll(nextTaskId, p.isLoading)
    /\ timers' = timers \cup {[id |-> p.up, taskId |-> nextTaskId,
                               isLoading |-> p.isLoading]}
    /\ pollingIntervalRef' = p.up
    /\ lastEvent' = Event("uploadAccepted", "", FALSE)

\* handleUpload after the POST settled with a task_id: the backend has created
\* the job
UploadAccepted(p) ==
    /\ \E dispatched \in BOOLEAN : CreateJob(dispatched)
    /\ Render(selectedFile, MsgProcessing, isLoading, generatedFilename, nextTaskId)
    /\ CanPoll(nextTaskId)
    /\ gets' = GetsAfterPoll(nextTaskId, p.isLoading)
    /\ timers' = TimersAfterStop \cup {[id |-> p.up, taskId |-> nextTaskId, isLoading |-> p.isLoading]}
    /\ pollingIntervalRef' = p.up
    /\ lastEvent' = Event("uploadAccepted", "", FALSE)

UploadErrorMessage(failure) ==
    CASE failure = "REJECTED" -> MsgRejected
      [] failure = "NO_RESPONSE" -> MsgNoResponse
      [] OTHER -> MsgNoTaskId

\* a catch block that forgets setIsLoading(false)
UploadFailedKeepsLoading(p, failure) ==
    /\ timers' = {t \in timers : t.id # pollingIntervalRef}
    /\ pollingIntervalRef' = Null
    /\ Render(selectedFile, UploadErrorMessage(failure), isLoading, generatedFilename,
              Null)
    /\ lastEvent' = Event("uploadFailed", failure, FALSE)
    /\ UNCHANGED <<gets, backend>>

\* handleUpload after the POST failed: an error response, no response, or a
\* response without task_id (the throw of the else branch lands in the catch)
UploadFailed(p, failure) ==
    /\ StopPolling
    /\ Render(selectedFile, UploadErrorMessage(failure), FALSE, generatedFilename, Null)
    /\ lastEvent' = Event("uploadFailed", failure, FALSE)
    /\ UNCHANGED <<gets, backend>>

UploadFailures == {"REJECTED", "NO_RESPONSE", "NO_TASK_ID"}

\* the uploads a user can submit: the extension of the file and whether its
\* payload is empty
Files == [ext : {".pdf", ".docx", ".txt"}, empty : BOOLEAN]

AcceptedExtensions == {".pdf", ".docx"}

\* a validation that checks the extension only
ValidUploadByExtension(file) == file.ext \in AcceptedExtensions

\* the validation of the submission service
ValidUpload(file) == ~file.empty /\ file.ext \in AcceptedExtensions

\* the POST of upload p, which carried file, settles; only a valid upload is
\* answered with a task_id
UploadResponse(p, file) ==
    /\ p \in posts
    /\ posts' = posts \ {p}
    /\ \/ ValidUpload(file) /\ UploadAccepted(p)
       \/ \E failure \in UploadFailures : UploadFailed(p, failure)
    /\ UNCHANGED <<mounted, uploadSeq, history>>

\* the setInterval callback of handleUpload
IntervalTick(t) ==
    /\ t \in timers
    /\ IF currentTaskIdRef # Null
       THEN /\ CanPoll(currentTaskIdRef)
            /\ gets' = GetsAfterPoll(currentTaskIdRef, t.isLoading)
            /\ UNCHANGED <<pollingIntervalRef, timers>>
       ELSE /\ StopPolling
            /\ UNCHANGED gets
    /\ lastEvent' = OtherEvent
    /\ UNCHANGED <<reactState, currentTaskIdRef, mounted, posts, uploadSeq, backend,
                   history>>

\* a poller that trusts the comparison it made before sending the request
ResponseWasCurrentWhenSent(taskId) == TRUE

\* the check pollTaskStatus makes after the await, in the try and in the catch
ResponseIsCurrent(taskId) == taskId = currentTaskIdRef

\* a poller whose FAILED branch forgets stopPolling
HandleStatusFailedKeepsPolling(r, status) ==
    IF ~(r.taskId = currentTaskIdRef)
    THEN UNCHANGED <<reactState, refs, timers>>
    ELSE CASE status = "COMPLETED" ->
                /\ timers' = {t \in timers : t.id # pollingIntervalRef}
                /\ pollingIntervalRef' = Null
                /\ Render(selectedFile, MsgCompleted, FALSE,
                          OutputFilename(r.taskId), currentTaskId)
           [] status = "FAILED" ->
                /\ UNCHANGED <<pollingIntervalRef, timers>>
                /\ Render(selectedFile, MsgFailed, FALSE, generatedFilename,
                          currentTaskId)
           [] OTHER ->
                /\ IF r.isLoading
                   THEN Render(selectedFile, MsgStatus(status), isLoading,
                               generatedFilename, currentTaskId)
                   ELSE UNCHANGED <<reactState, currentTaskIdRef>>
                /\ UNCHANGED <<pollingIntervalRef, timers>>

\* pollTaskStatus after the GET answered 200 with a status
HandleStatus(r, status) ==
    IF ~ResponseIsCurrent(r.taskId)
    THEN UNCHANGED <<reactState, refs, timers>>
    ELSE CASE status = "COMPLETED" ->
                /\ StopPolling
                /\ Render(selectedFile, MsgCompleted, FALSE,
                          OutputFilename(r.taskId), currentTaskId)
           [] status = "FAILED" ->
                /\ StopPolling
                /\ Render(selectedFile, MsgFailed, FALSE, generatedFilename,
                          currentTaskId)
           [] OTHER ->
                /\ IF r.isLoading
                   THEN Render(selectedFile, MsgStatus(status), isLoading,
                               generatedFilename, currentTaskId)
                   ELSE UNCHANGED <<reactState, currentTaskIdRef>>
                /\ UNCHANGED <<pollingIntervalRef, timers>>

\* a poller with the two commented-out lines of the non-404 branch enabled:
\* any error stops polling and ends the loading state
HandleStatusErrorStopsOnAny(r, error) ==
    IF ~(r.taskId = currentTaskIdRef)
    THEN UNCHANGED <<reactState, refs, timers>>
    ELSE IF error = "NOT_FOUND"
         THEN /\ timers' = {t \in timers : t.id # pollingIntervalRef}
              /\ pollingIntervalRef' = Null
              /\ Render(selectedFile, MsgNotFound, FALSE, generatedFilename, Null)
         ELSE /\ timers' = {t \in timers : t.id # pollingIntervalRef}
              /\ pollingIntervalRef' = Null
              /\ Render(selectedFile, MsgCheckError, FALSE, generatedFilename,
                        currentTaskId)

\* a poller whose 404 branch reports the error but keeps polling
HandleStatusErrorKeepsPollingOn404(r, error) ==
    IF ~(r.taskId = currentTaskIdRef)
    THEN UNCHANGED <<reactState, refs, timers>>
    ELSE IF error = "NOT_FOUND"
         THEN /\ UNCHANGED <<pollingIntervalRef, timers>>
              /\ Render(selectedFile, MsgNotFound, FALSE, generatedFilename, Null)
         ELSE /\ Render(selectedFile, MsgCheckError, isLoading, generatedFilename,
                        currentTaskId)
              /\ UNCHANGED <<pollingIntervalRef, timers>>

\* pollTaskStatus after the GET failed: 404, or any other error
HandleStatusError(r, error) ==
    IF ~ResponseIsCurrent(r.taskId)
    THEN UNCHANGED <<reactState, refs, timers>>
    ELSE IF error = "NOT_FOUND"
         THEN /\ StopPolling
              /\ Render(selectedFile, MsgNotFound, FALSE, generatedFilename, Null)
         ELSE /\ Render(selectedFile, MsgCheckError, isLoading, generatedFilename,
                        currentTaskId)
              /\ UNCHANGED <<pollingIntervalRef, timers>>

StatusErrors == {"NOT_FOUND", "NETWORK_ERROR"}

\* everything a GET /status can settle with
StatusResults == Terminal \cup {"PENDING", "PROCESSING"} \cup StatusErrors

StatusResponse(r, result) ==
    /\ BagIn(r, gets)
    /\ result \in {StatusOf(r.taskId), "NETWORK_ERROR"}
    /\ gets' = gets (-) SetToBag({r})
    /\ IF result \in StatusErrors
       THEN HandleStatusError(r, result)
       ELSE HandleStatus(r, result)
    /\ lastEvent' =
           IF ResponseIsCurrent(r.taskId)
           THEN Event("status", result, TRUE)
           ELSE Event("status", "", FALSE)
    /\ notFoundHandled' =
           IF result = "NOT_FOUND" /\ ResponseIsCurrent(r.taskId)
           THEN notFoundHandled \cup {r.taskId}
           ELSE notFoundHandled
    /\ UNCHANGED <<mounted, posts, uploadSeq, backend, acceptedAtUpload>>

\* ----------------------------------------------------------------- backend
\* the pipeline runner enters: PENDING -> PROCESSING
RunnerStart(taskId) ==
    /\ BagIn(taskId, scheduled)
    /\ scheduled' = scheduled (-) SetToBag({taskId})
    /\ taskId \in DOMAIN tasks
    /\ tasks[taskId].state = "PENDING"
    /\ tasks' = [tasks EXCEPT ![taskId].state = "PROCESSING"]
    /\ lastEvent' = OtherEvent
    /\ UNCHANGED <<reactState, refs, mounted, timers, posts, gets, uploadSeq,
                   nextTaskId, history>>

\* a runner that may record its outcome before it has entered PROCESSING
RunnerFinishSkipsProcessing(taskId, outcome) ==
    /\ taskId \in DOMAIN tasks
    /\ tasks[taskId].state \in {"PENDING", "PROCESSING"}
    /\ tasks' = [tasks EXCEPT ![taskId] =
                     Job(outcome, IF outcome = "COMPLETED"
                                  THEN OutputFilename(taskId)
                                  ELSE Null)]
    /\ lastEvent' = OtherEvent
    /\ UNCHANGED <<reactState, refs, mounted, timers, posts, gets, uploadSeq,
                   nextTaskId, scheduled, history>>

\* a runner that keeps the artifact reference of a render that succeeded although
\* the job is then recorded as FAILED
RunnerFinishKeepsOutputRef(taskId, outcome) ==
    /\ taskId \in DOMAIN tasks
    /\ tasks[taskId].state = "PROCESSING"
    /\ tasks' = [tasks EXCEPT ![taskId] = Job(outcome, OutputFilename(taskId))]
    /\ lastEvent' = OtherEvent
    /\ UNCHANGED <<reactState, refs, mounted, timers, posts, gets, uploadSeq,
                   nextTaskId, scheduled, history>>

\* a runner that records its outcome in the record of the job submitted last
\* instead of its own
RunnerFinishWritesLatest(taskId, outcome) ==
    /\ taskId \in DOMAIN tasks
    /\ tasks[taskId].state = "PROCESSING"
    /\ tasks' = [tasks EXCEPT ![nextTaskId - 1] =
                     Job(outcome, IF outcome = "COMPLETED"
                                  THEN OutputFilename(taskId)
                                  ELSE Null)]
    /\ lastEvent' = OtherEvent
    /\ UNCHANGED <<reactState, refs, mounted, timers, posts, gets, uploadSeq,
                   nextTaskId, scheduled, history>>

\* the pipeline runner ends: PROCESSING -> COMPLETED or FAILED
RunnerFinish(taskId, outcome) ==
    /\ taskId \in DOMAIN tasks
    /\ tasks[taskId].state = "PROCESSING"
    /\ tasks' = [tasks EXCEPT ![taskId] =
                     Job(outcome, IF outcome = "COMPLETED"
                                  THEN OutputFilename(taskId)
                                  ELSE Null)]
    /\ lastEvent' = OtherEvent
    /\ UNCHANGED <<reactState, refs, mounted, timers, posts, gets, uploadSeq,
                   nextTaskId, scheduled, history>>

\* the server restarts: the in-memory task state is lost
BackendRestart ==
    /\ tasks # <<>>
    /\ tasks' = <<>>
    /\ scheduled' = EmptyBag
    /\ lastEvent' = OtherEvent
    /\ UNCHANGED <<reactState, refs, mounted, timers, posts, gets, uploadSeq,
                   nextTaskId, history>>

Next ==
    \/ SyncTaskIdRef
    \/ Unmount
    \/ \E file \in BOOLEAN : HandleFileChange(file)
    \/ HandleUpload
    \/ \E p \in posts : \E file \in Files : UploadResponse(p, file)
    \/ \E t \in timers : IntervalTick(t)
    \/ \E r \in BagToSet(gets) : \E result \in StatusResults :
          StatusResponse(r, result)
    \/ \E taskId \in DOMAIN tasks : RunnerStart(taskId)
    \/ \E taskId \in DOMAIN tasks : \E outcome \in Terminal : RunnerFinish(taskId, outcome)
    \/ BackendRestart

Spec == Init /\ [][Next]_vars

\* ================================================================== claims
\* what the user sees of a submission, and its polling
uiAndPolling == <<message, isLoading, generatedFilename, pollingIntervalRef, timers>>

\* The continuation of pollTaskStatus runs for request r, which settled with
\* result.
Handles(r, result) == BagIn(r, gets) /\ StatusResponse(r, result)

\* the task ids for which this step sends a status query
IssuedIds ==
    {g.taskId : g \in {h \in BagToSet(gets') : CopiesIn(h, gets') > CopiesIn(h, gets)}}

\* C1: once handleUpload has started for a newer upload, handling a status
\* response (success or error) requested for an earlier task id never changes
\* message, isLoading, generatedFilename or the polling interval.
C1_StaleResponseNeverOverwrites ==
    [][\A r \in BagToSet(gets) : \A result \in StatusResults :
          (r.taskId <= acceptedAtUpload /\ Handles(r, result))
              => UNCHANGED uiAndPolling]_vars

\* C2: a response (or error) whose task id differs from currentTaskIdRef at the
\* moment it is handled leaves message, isLoading, generatedFilename,
\* currentTaskId and the polling interval unchanged, although the two were equal
\* when the request was sent.
C2_ComparedWhenHandled ==
    [][\A r \in BagToSet(gets) : \A result \in StatusResults :
          (r.taskId # currentTaskIdRef /\ Handles(r, result))
              => UNCHANGED <<uiAndPolling, currentTaskId>>]_vars

\* C2, witness: a response was ignored while a later task is being polled
C2_Witness ==
    /\ lastEvent = Event("status", "", FALSE)
    /\ mounted /\ isLoading
    /\ pollingIntervalRef # Null
    /\ currentTaskIdRef # Null

\* C3: when a COMPLETED or FAILED response is handled for the active task, the
\* interval is cleared and isLoading becomes false; a status query is only sent
\* while an interval is set, and an interval is only set again by a submission
\* that succeeds.
C3_TerminalStopsPolling ==
    [][/\ \A r \in BagToSet(gets) : \A result \in Terminal :
             (r.taskId = currentTaskIdRef /\ Handles(r, result))
                 => /\ pollingIntervalRef' = Null
                    /\ timers' = {}
                    /\ mounted => ~isLoading'
       /\ IssuedIds # {} => pollingIntervalRef # Null
       /\ (pollingIntervalRef = Null /\ pollingIntervalRef' # Null)
             => \E p \in posts : posts' = posts \ {p} /\ UploadAccepted(p)]_vars

\* C3, witness: a FAILED response was handled for the active task
C3_Witness ==
    /\ lastEvent = Event("status", "FAILED", TRUE)
    /\ mounted /\ ~isLoading
    /\ message = MsgFailed
    /\ pollingIntervalRef = Null

\* C4: when the status query of the active task fails with 404, the interval is
\* cleared, isLoading becomes false, currentTaskId is set to null and the error
\* is shown; the mounted component sends no status query for that id afterwards.
C4_NotFoundStopsPolling ==
    [][/\ \A r \in BagToSet(gets) :
             (r.taskId = currentTaskIdRef /\ Handles(r, "NOT_FOUND"))
                 => /\ pollingIntervalRef' = Null
                    /\ timers' = {}
                    /\ mounted => /\ ~isLoading'
                                  /\ currentTaskId' = Null
                                  /\ message' = MsgNotFound
       /\ mounted => IssuedIds \cap notFoundHandled = {}]_vars

\* C4, witness: a 404 was handled for the active task
C4_Witness ==
    /\ lastEvent = Event("status", "NOT_FOUND", TRUE)
    /\ mounted /\ ~isLoading
    /\ currentTaskId = Null
    /\ notFoundHandled # {}

\* C5: a status query of the active task that fails with another error than 404
\* only shows the error: interval, isLoading, currentTaskId and
\* generatedFilename are unchanged; while the task is the one being polled the
\* poll guard still holds for it, and an interval tick under a holding poll guard
\* sends another query for that id.
C5_TransientErrorKeepsPolling ==
    [][/\ \A r \in BagToSet(gets) :
             (r.taskId = currentTaskIdRef /\ Handles(r, "NETWORK_ERROR"))
                 => /\ UNCHANGED <<pollingIntervalRef, timers, isLoading,
                                   currentTaskId, generatedFilename>>
                    /\ mounted => message' = MsgCheckError
                    /\ (PollGuard(r.taskId) /\ currentTaskId = r.taskId)
                          => PollGuard(r.taskId)'
       /\ \A t \in timers :
             (IntervalTick(t) /\ currentTaskIdRef # Null /\ PollGuard(currentTaskIdRef))
                 => gets' = gets (+) SetToBag({StatusQuery(currentTaskIdRef, t.isLoading)})]_vars

\* C5, witness: another error than 404 was handled for the task being polled
C5_Witness ==
    /\ lastEvent = Event("status", "NETWORK_ERROR", TRUE)
    /\ mounted /\ isLoading
    /\ message = MsgCheckError
    /\ PollGuard(currentTaskId)

\* after the step, the interval the ref holds is the one set for this task
PollingForAfter(taskId) ==
    \E t \in timers' : t.id = pollingIntervalRef' /\ t.taskId = taskId

\* C6: after the POST returned a task_id, that id is the active identifier and
\* exactly one interval runs; every status query the mounted component sends is
\* for the task_id whose submission set the interval.
C6_QueriesOnlyForSubmittedTask ==
    [][mounted =>
         /\ \A p \in posts : (posts' = posts \ {p} /\ UploadAccepted(p))
                => /\ currentTaskId' = nextTaskId
                   /\ Cardinality(timers') = 1
                   /\ PollingForAfter(nextTaskId)
         /\ \A taskId \in IssuedIds : PollingForAfter(taskId)]_vars

\* C7 (as a final result): once the task of the latest submission is COMPLETED or
\* FAILED in the store and nothing is left to run (no request in flight, no
\* interval, the effect has run), the mounted client has left the loading state
\* and shows that task's outcome.
C7_ResolvedWhenQuiescent ==
    (/\ mounted
     /\ currentTaskId # Null
     /\ currentTaskId = nextTaskId - 1
     /\ currentTaskIdRef = currentTaskId
     /\ StatusOf(currentTaskId) \in Terminal
     /\ posts = {} /\ gets = EmptyBag /\ timers = {})
        => /\ ~isLoading
           /\ StatusOf(currentTaskId) = "COMPLETED"
                 => generatedFilename = OutputFilename(currentTaskId)
           /\ StatusOf(currentTaskId) = "FAILED" => message = MsgFailed

\* C8: when the submission is rejected or fails, no task id is active, no
\* interval is set, no status query is sent and no job exists for it; the
\* mounted client leaves the loading state with an error message.
C8_FailedSubmissionStartsNothing ==
    [][\A p \in posts : \A failure \in UploadFailures :
          (posts' = posts \ {p} /\ UploadFailed(p, failure))
              => /\ pollingIntervalRef' = Null
                 /\ timers' = {}
                 /\ IssuedIds = {}
                 /\ UNCHANGED backend
                 /\ mounted => /\ currentTaskId' = Null
                               /\ ~isLoading'
                               /\ message' = UploadErrorMessage(failure)
                               /\ message' \in ErrorMessages]_vars

\* C8, witness: a submission was rejected
C8_Witness ==
    /\ lastEvent = Event("uploadFailed", "REJECTED", FALSE)
    /\ mounted /\ ~isLoading
    /\ message = MsgRejected
    /\ currentTaskId = Null

\* C9: the mounted client is never loading with neither a POST in flight nor an
\* interval set, and never has an interval set while not loading.
C9_LoadingIffSubmittingOrPolling ==
    mounted =>
        /\ isLoading => (posts # {} \/ pollingIntervalRef # Null)
        /\ pollingIntervalRef # Null => isLoading

\* C10: a download link (generatedFilename set, not loading) names the output of
\* the most recently accepted task, that task is COMPLETED unless the store lost
\* it, and no upload has been started since it was accepted.
C10_LinkOnlyForLatestCompleted ==
    (mounted /\ generatedFilename # Null /\ ~isLoading)
        => /\ generatedFilename = OutputFilename(nextTaskId - 1)
           /\ StatusOf(nextTaskId - 1) \in {"COMPLETED", "NOT_FOUND"}
           /\ acceptedAtUpload < nextTaskId - 1

\* the timers fire and the requests settle
Fairness ==
    /\ WF_vars(\E t \in timers : IntervalTick(t))
    /\ WF_vars(\E r \in BagToSet(gets) : \E result \in StatusResults :
                  StatusResponse(r, result))

FairSpec == Spec /\ Fairness

\* POLLING: the mounted client is loading, no submission is in flight, the
\* interval held in pollingIntervalRef is live and the ref names the active task
Polling ==
    /\ mounted /\ isLoading
    /\ posts = {}
    /\ currentTaskId # Null
    /\ currentTaskIdRef = currentTaskId
    /\ \E t \in timers : t.id = pollingIntervalRef

\* a step the user takes
UserAction ==
    \/ Unmount
    \/ HandleUpload
    \/ \E file \in BOOLEAN : HandleFileChange(file)

\* a status query of the active task settles with anything but a non-404 error
ActiveTaskAnswered ==
    \E r \in BagToSet(gets) : \E result \in StatusResults \ {"NETWORK_ERROR"} :
        r.taskId = currentTaskIdRef /\ Handles(r, result)

\* C11: while the client is polling, as long as the user does nothing and the
\* status queries of the active task only fail with non-404 errors, every step
\* leaves the interval, isLoading and the active task as they are and the client
\* polling, and every interval tick sends a status query for the active task;
\* when the timers fire and the requests settle, a run that stays polling sends
\* status queries again and again, without end.
C11_PollsWithoutBound ==
    /\ [][Polling =>
            /\ (~UserAction /\ ~ActiveTaskAnswered)
                  => /\ Polling'
                     /\ UNCHANGED <<pollingIntervalRef, timers, isLoading,
                                    currentTaskId>>
            /\ \A t \in timers : IntervalTick(t) => IssuedIds = {currentTaskId}]_vars
    /\ <>[]Polling => []<><<\E t \in timers : IntervalTick(t)>>_vars

\* C11, witness: the client is still polling after a status query of the active
\* task failed with a non-404 error, with the next query already sent
C11_Witness ==
    /\ Polling
    /\ message = MsgCheckError
    /\ BagIn(StatusQuery(currentTaskId, FALSE), gets)

\* ------------------------------------------------------------- job store
\* the states a job's record may take next
NextStates(state) ==
    CASE state = "PENDING" -> {"PROCESSING"}
      [] state = "PROCESSING" -> Terminal
      [] OTHER -> {}

\* the continuation of handleUpload runs for upload p, answered with a task_id
Accepts(p) == p \in posts /\ posts' = posts \ {p} /\ UploadAccepted(p)

C13_OutputRefIffCompleted ==
    \A id \in DOMAIN tasks :
        tasks[id].outputRef # Null <=> tasks[id].state = "COMPLETED"

\* C13, witness: the store holds a COMPLETED job with its outputRef and a FAILED
\* job without one
C13_Witness ==
    \E a \in DOMAIN tasks : \E b \in DOMAIN tasks :
        /\ tasks[a] = Job("COMPLETED", OutputFilename(a))
        /\ tasks[b] = Job("FAILED", Null)

\* C14: every accepted submission gets an id no record holds and that is larger
\* than every id handed out before (the next id never decreases); a record that
\* is COMPLETED or FAILED is not changed by any step, as long as the store
\* holds it.
C14_DistinctIdsTerminalImmutable ==
    [][/\ nextTaskId' >= nextTaskId
       /\ \A id \in DOMAIN tasks' : id < nextTaskId'
       /\ \A p \in posts : Accepts(p)
             => /\ nextTaskId \notin DOMAIN tasks
                /\ nextTaskId' = nextTaskId + 1
                /\ DOMAIN tasks' = DOMAIN tasks \cup {nextTaskId}
                /\ mounted => currentTaskId' = nextTaskId
       /\ \A id \in DOMAIN tasks \cap DOMAIN tasks' :
             tasks[id].state \in Terminal => tasks'[id] = tasks[id]]_vars

\* C14, witness: job 1 is COMPLETED and the runner of job 2, submitted after it,
\* has recorded its own outcome
C14_Witness ==
    /\ DOMAIN tasks = {1, 2}
    /\ tasks[1].state = "COMPLETED"
    /\ tasks[2].state = "FAILED"
    /\ ~BagIn(2, scheduled)
    /\ nextTaskId = 3

\* C15: a job is PENDING only while its runner is dispatched, exactly once, and
\* not yet entered; a job in any other state has no runner waiting; a submission
\* that is accepted either dispatches the runner of its job, once, or leaves the
\* job FAILED when it returns.
C15_NoDanglingPending ==
    [][/\ \A id \in DOMAIN tasks' :
             CopiesIn(id, scheduled') = IF tasks'[id].state = "PENDING" THEN 1 ELSE 0
       /\ BagToSet(scheduled') \subseteq DOMAIN tasks'
       /\ \A p \in posts : Accepts(p)
             => \/ /\ tasks'[nextTaskId].state = "PENDING"
                   /\ scheduled' = scheduled (+) SetToBag({nextTaskId})
                \/ /\ tasks'[nextTaskId].state = "FAILED"
                   /\ scheduled' = scheduled]_vars

\* C15, witness: a submission has just returned with its job FAILED because the
\* runner could not be dispatched, while the runner of another job is dispatched
C15_Witness ==
    /\ lastEvent = Event("uploadAccepted", "", FALSE)
    /\ StatusOf(nextTaskId - 1) = "FAILED"
    /\ \E id \in DOMAIN tasks : tasks[id].state = "PENDING" /\ BagIn(id, scheduled)

\* C16: when the POST of an upload with an empty payload or an extension other
\* than .pdf and .docx settles, the job store is unchanged (no record, no runner
\* dispatched, no id consumed) and the client gets no task id.
C16_InvalidUploadCreatesNothing ==
    [][\A p \in posts : \A file \in Files :
          (~(~file.empty /\ file.ext \in {".pdf", ".docx"}) /\ UploadResponse(p, file))
              => /\ UNCHANGED <<tasks, nextTaskId, scheduled>>
                 /\ ~Accepts(p)
                 /\ mounted => currentTaskId' = Null]_vars

\* C16, witness: the first submission was rejected and the store is still empty
C16_Witness ==
    /\ lastEvent = Event("uploadFailed", "REJECTED", FALSE)
    /\ uploadSeq = 1
    /\ tasks = <<>> /\ scheduled = EmptyBag /\ nextTaskId = 1
    /\ mounted => currentTaskId = Null

\* ---------------------------------------------------------------- client
\* C17: the step in which handleUpload of the mounted client receives the task_id
\* sends a status query for it, from the direct call of pollTaskStatus, before
\* any interval tick.
C17_FirstQueryAtOnce ==
    [][\A p \in posts : (mounted /\ Accepts(p)) => nextTaskId \in IssuedIds]_vars

\* C18: when a PENDING or PROCESSING response is handled for the active task
\* while the mounted client is polling and loading, message becomes
\* 'Status: <status>...' for the status received.
C18_StatusMessageShown ==
    [][\A r \in BagToSet(gets) : \A result \in {"PENDING", "PROCESSING"} :
          (/\ mounted /\ isLoading
           /\ pollingIntervalRef # Null
           /\ r.taskId = currentTaskIdRef
           /\ Handles(r, result))
              => message' = MsgStatus(result)]_vars

\* C19: once the component is unmounted no interval is live, pollingIntervalRef
\* holds none and no step sends a status query.
C19_NoPollingAfterUnmount ==
    [][~mounted' => /\ timers' = {}
                    /\ pollingIntervalRef' = Null
                    /\ IssuedIds = {}]_vars

\* C20: at most one interval is live, and a live interval is the one
\* pollingIntervalRef holds.
C20_AtMostOneTimer ==
    /\ Cardinality(timers) <= 1
    /\ \A t \in timers : t.id = pollingIntervalRef

\* C20, witness: a submission was accepted while the task of the submission
\* before it was still the active one; the only live interval is the new one
C20_Witness ==
    /\ lastEvent = Event("uploadAccepted", "", FALSE)
    /\ currentTaskId = nextTaskId - 1
    /\ currentTaskIdRef = nextTaskId - 2
    /\ currentTaskIdRef # Null
    /\ \E t \in timers : /\ timers = {t}
                         /\ t.taskId = currentTaskId
                         /\ t.id = pollingIntervalRef
====
